---- MODULE Spec2Model ----
(***************************************************************************)
(* Model of analysis/extra/ben_code/bursty_sfh.py: the burst parameter     *)
(* solver (convert_burst_pars), the bursty SFH synthesizer (burst_sfh),    *)
(* the spectral time integrator (bursty_sps) and the two dust attenuators  *)
(* (redden_analytic, redden_pieces).                                       *)
(*                                                                         *)
(* Floating-point numbers are modelled as exact fractions n/d, extended    *)
(* with the IEEE specials numpy produces instead of raising: d = 0 with    *)
(* n = 1, -1, 0 stands for +inf, -inf and nan.  Rounding error of the      *)
(* floating-point operations is not modelled.                              *)
(***************************************************************************)
EXTENDS Integers, Sequences, FiniteSets

VARIABLES fn, args, local, pc, ret

vars == <<fn, args, local, pc, ret>>

(***************************************************************************)
(* Bounds of the model.                                                    *)
(***************************************************************************)
\* largest bin edge / lookback time drawn as an input
MaxT == 3
\* largest number of SFH bins drawn as an input
MaxBins == 2

(***************************************************************************)
(* numpy float64 arithmetic on fractions with inf and nan.                 *)
(***************************************************************************)
Abs(x) == IF x < 0 THEN 0 - x ELSE x

Sign(x) == IF x < 0 THEN 0 - 1 ELSE IF x > 0 THEN 1 ELSE 0

RECURSIVE GCD(_, _)
GCD(x, y) == IF y = 0 THEN x ELSE GCD(y, x % y)

\* the float n/d in lowest terms; d = 0 gives +inf, -inf or nan
Q(n, d) ==
    IF d = 0 THEN [n |-> Sign(n), d |-> 0]
    ELSE LET g == GCD(Abs(n), Abs(d))
             s == Sign(d)
         IN  [n |-> (s * n) \div g, d |-> (s * d) \div g]

Num(k) == [n |-> k, d |-> 1]

NaN == [n |-> 0, d |-> 0]

IsNaN(x) == x.d = 0 /\ x.n = 0

IsFinite(x) == x.d # 0

QMul(x, y) == Q(x.n * y.n, x.d * y.d)

\* x / y as numpy divides float64 scalars: a zero divisor gives inf or nan
\* (with a RuntimeWarning), never an exception
QDiv(x, y) ==
    IF IsFinite(y) /\ y.n = 0 THEN Q(x.n, 0)
    ELSE Q(x.n * y.d * Sign(y.n), x.d * Abs(y.n))

QAdd(x, y) ==
    IF IsFinite(x) /\ IsFinite(y) THEN Q(x.n * y.d + y.n * x.d, x.d * y.d)
    ELSE IF IsNaN(x) \/ IsNaN(y) THEN NaN
    ELSE IF IsFinite(y) THEN x
    ELSE IF IsFinite(x) THEN y
    ELSE IF x.n = y.n THEN x ELSE NaN

QNeg(x) == [n |-> 0 - x.n, d |-> x.d]

QSub(x, y) == QAdd(x, QNeg(y))

\* x < y; every comparison with nan is False
QLt(x, y) ==
    IF IsNaN(x) \/ IsNaN(y) THEN FALSE
    ELSE IF IsFinite(x) /\ IsFinite(y) THEN x.n * y.d < y.n * x.d
    ELSE IF IsFinite(x) THEN y.n > 0
    ELSE IF IsFinite(y) THEN x.n < 0
    ELSE x.n < y.n

QGt(x, y) == QLt(y, x)

QEq(x, y) == ~IsNaN(x) /\ ~IsNaN(y) /\ x = y

QLe(x, y) == QLt(x, y) \/ QEq(x, y)

QGe(x, y) == QLe(y, x)

\* np.round: nearest integer, ties to the even one; inf and nan pass through
np_round(x) ==
    IF ~IsFinite(x) THEN x
    ELSE LET fl == x.n \div x.d
             r2 == 2 * (x.n - fl * x.d)
         IN  IF r2 < x.d THEN Num(fl)
             ELSE IF r2 > x.d THEN Num(fl + 1)
             ELSE IF fl % 2 = 0 THEN Num(fl) ELSE Num(fl + 1)

RECURSIVE QMin(_)
QMin(s) ==
    IF Len(s) = 1 THEN s[1]
    ELSE LET m == QMin(Tail(s))
         IN  IF QLt(m, s[1]) \/ IsNaN(s[1]) THEN m ELSE s[1]

RECURSIVE QMax(_)
QMax(s) ==
    IF Len(s) = 1 THEN s[1]
    ELSE LET m == QMax(Tail(s))
         IN  IF QGt(m, s[1]) \/ IsNaN(s[1]) THEN m ELSE s[1]

RECURSIVE QSum(_)
QSum(s) == IF Len(s) = 0 THEN Num(0) ELSE QAdd(s[1], QSum(Tail(s)))

\* np.sqrt(np.pi * 2) = 2.50662827..., to four decimals
Sqrt2Pi == Q(12533, 5000)

\* the FWHM-to-sigma divisor of convert_burst_pars
FwhmPerSigma == Q(2355, 1000)

(***************************************************************************)
(* convert_burst_pars                                                      *)
(***************************************************************************)
\* the fractions of the interval at which np.random.uniform may land
DrawFracs == {Q(0, 1), Q(1, 2)}

\* np.random.uniform(lo, hi, size): every sequence of size draws in [lo, hi).
\* The size convert_burst_pars passes is the float np.round returns; it is
\* taken as the count it stands for, as the numpy the code was written for
\* does.
uniform(lo, hi, size) ==
    [1..size -> {QAdd(lo, QMul(f, QSub(hi, lo))) : f \in DrawFracs}]

\* the amplitude left as first computed, not recalculated for the rounded count
burst_amplitude_stale(mstar, f_burst, nburst, A) == A

\* lines 48-49: the amplitude recalculated for the rounded burst count
burst_amplitude(mstar, f_burst, nburst, A) == QDiv(QMul(mstar, f_burst), nburst)

\* the short-bin test against one burst width instead of two
short_bin_one_fwhm(width, fwhm_burst) == QLt(width, fwhm_burst)

\* line 37: whether the bin is too short to hold resolved bursts
short_bin(width, fwhm_burst) == QLt(width, QMul(fwhm_burst, Num(2)))

\* lines 36-55: everything but the random burst times; nburst is the size
\* handed to np.random.uniform
convert_burst_pars(fwhm_burst, f_burst, contrast, bin_width, bin_sfr) ==
    LET width  == bin_width
        mstar  == QMul(bin_width, bin_sfr)
        fb     == IF short_bin(width, fwhm_burst) THEN Num(0) ELSE f_burst
        a0     == QDiv(QMul(mstar, QSub(Num(1), fb)), width)
        sigma  == QDiv(fwhm_burst, FwhmPerSigma)
        maxsfr == QMul(contrast, a0)
        A0     == QMul(maxsfr, QMul(sigma, Sqrt2Pi))
    IN  IF QGt(A0, Num(0))
        THEN LET nburst == np_round(QDiv(QMul(mstar, fb), A0))
             IN  IF QGt(nburst, Num(0))
                 THEN [a |-> a0, nburst |-> nburst.n,
                       A |-> burst_amplitude(mstar, fb, nburst, A0), sigma |-> sigma]
                 ELSE [a |-> QDiv(mstar, width), nburst |-> 0,
                       A |-> Num(0), sigma |-> sigma]
        ELSE [a |-> QDiv(mstar, width), nburst |-> 0, A |-> A0, sigma |-> sigma]

(***************************************************************************)
(* burst_sfh                                                               *)
(***************************************************************************)
\* the value of an expression that raised instead
Raised(exc) == [ok |-> FALSE, exc |-> exc]

Value(v) == [ok |-> TRUE, v |-> v]

\* np.arange(n) for a float n: a length that is inf or nan raises, a
\* length <= 0 gives the empty array
np_arange(n) ==
    IF ~IsFinite(n) THEN Raised("ValueError")
    ELSE Value([k \in 1..(IF n.n > 0 THEN n.n ELSE 0) |-> Num(k - 1)])

\* np.digitize(x, bins) for non-decreasing bins: the number of edges <= x
np_digitize(x, bins) == Cardinality({j \in 1..Len(bins) : QLe(bins[j], x)})

\* a[k] for a Python/numpy index k (0-based; a negative k counts from the end)
py_index(a, k) ==
    IF 0 <= k /\ k < Len(a) THEN Value(a[k + 1])
    ELSE IF k < 0 /\ 0 - k <= Len(a) THEN Value(a[Len(a) + k + 1])
    ELSE Raised("IndexError")

\* gauss(x, mu, A, sigma) at one sample x: the terms of the sum over the
\* bursts, term j standing for coef * exp(-dx^2 / (2 sigma^2))
gauss(x, mu, A, sigma) ==
    [j \in 1..Len(mu) |->
        [coef |-> QDiv(A[j], QMul(sigma[j], Sqrt2Pi)), dx |-> QSub(x, mu[j]),
         sigma |-> sigma[j]]]

bin_widths(sfh) == [k \in 1..Len(sfh) |-> QSub(sfh[k].t2, sfh[k].t1)]

\* lines 80-85: the time resolution
time_resolution(sfh, sigma, bin_res) ==
    IF Len(sigma) = 0 THEN QDiv(QMin(bin_widths(sfh)), bin_res)
    ELSE QDiv(QMin(sigma), Num(5))

\* the grid length with a zero dt answered by an empty grid
grid_length_silent(t2max, dt) ==
    IF dt = Num(0) THEN Num(0) ELSE np_round(QDiv(t2max, dt))

\* the grid length with one sample too many
grid_length_inclusive(t2max, dt) == QAdd(np_round(QDiv(t2max, dt)), Num(1))

\* the length handed to np.arange at line 86
grid_length(t2max, dt) == np_round(QDiv(t2max, dt))

\* line 86: times = np.arange(np.round(sfh['t2'].max()/dt)) * dt
time_grid(sfh, dt) ==
    LET ar == np_arange(grid_length(QMax([k \in 1..Len(sfh) |-> sfh[k].t2]), dt))
    IN  IF ar.ok THEN Value([k \in 1..Len(ar.v) |-> QMul(ar.v[k], dt)]) ELSE ar

\* line 90: bins = [sfh[0]['t1']] + sfh['t2'].tolist()
bin_edges(sfh) == <<sfh[1].t1>> \o [k \in 1..Len(sfh) |-> sfh[k].t2]

\* line 91: bin_num = np.digitize(times, bins) - 1
bin_number(t, bins) == np_digitize(t, bins) - 1

(***************************************************************************)
(* bursty_sps                                                              *)
(***************************************************************************)
\* the names bound in the module's namespace when a function body runs:
\* the imports, the module-level constants and the functions defined
ModuleNames ==
    {"sys", "np", "pl", "constants", "fsps", "weights_1DLinear",
     "load_angst_sfh", "attenuation", "lsun", "pc", "lightspeed", "to_cgs",
     "gauss", "convert_burst_pars", "burst_sfh", "bursty_sps",
     "redden_analytic", "redden_pieces", "examples"}

\* the attenuator that line 140 of bursty_sps calls by name
AttenuatorName == "redden"

\* 10**sps.log_age: the SSP age grid of the external library, ascending
ssp_ages == <<Num(1), Num(2), Num(4)>>

\* the SSP spectra of the external library, one flux per age (nwave = 1)
ssp_spec == <<Num(3), Num(2), Num(1)>>

\* the weights a bracketed sample may get for its lower SSP age
WeightFracs == {Q(0, 1), Q(1, 2), Q(1, 1)}

\* weights_1DLinear(np.log(ssp_ages), np.log(x)) for one sample age x: the
\* two bracketing age indices (1-based) and their weights, which sum to 1;
\* a sample outside the age grid gets the nearest age with weight 1.  The
\* logarithm is monotone, so the bracket is found on the ages themselves;
\* w stands for the weight of the lower age, linear in log age.
weights_1DLinear(ages, x, w) ==
    LET n  == Len(ages)
        ss == Cardinality({j \in 1..n : QLt(ages[j], x)})
        hi == (IF ss < 1 THEN 1 ELSE IF ss > n - 1 THEN n - 1 ELSE ss) + 1
        lo == hi - 1
    IN  IF QLt(x, ages[lo]) THEN [inds |-> <<lo, lo>>, weights |-> <<Num(1), Num(0)>>]
        ELSE IF QGt(x, ages[hi]) THEN [inds |-> <<hi, hi>>, weights |-> <<Num(0), Num(1)>>]
        ELSE [inds |-> <<lo, hi>>, weights |-> <<w, QSub(Num(1), w)>>]

\* line 148: valid = (lt >= tl), as the 1-based indices of the valid samples
valid_samples(lt, tl) == {s \in 1..Len(lt) : QGe(lt[s], tl)}

\* lines 151-153: np.bincount(inds, weights * sfr[valid], minlength) * dt;
\* iw maps each valid sample to its index/weight pair
agg_weights(iw, sfr, valid, dt) ==
    [j \in 1..Len(ssp_ages) |->
        QMul(QSum([m \in 1..(2 * Len(sfr)) |->
                LET s == (m + 1) \div 2
                    c == 2 - (m % 2)
                IN  IF s \in valid /\ iw[s].inds[c] = j
                    THEN QMul(iw[s].weights[c], sfr[s]) ELSE Num(0)]), dt)]

\* line 154: int_spec[i,:] = (spec * agg_weights[:,None]).sum(axis = 0)
integrated_spectrum(spec, agg) ==
    QSum([j \in 1..Len(agg) |-> QMul(spec[j], agg[j])])

(***************************************************************************)
(* redden_analytic and redden_pieces                                       *)
(***************************************************************************)
None == [t |-> "None"]

Scalar(x) == [t |-> "scalar", v |-> x]

Array(xs) == [t |-> "array", vs |-> xs]

\* np.atleast_1d of a scalar or an array
np_atleast_1d(x) == IF x.t = "scalar" THEN <<x.v>> ELSE x.vs

\* 10^k for an integer k
RECURSIVE Pow10(_)
Pow10(k) ==
    IF k = 0 THEN Num(1)
    ELSE IF k > 0 THEN QMul(Num(10), Pow10(k - 1))
    ELSE QDiv(Pow10(k + 1), Num(10))

\* np.log10 on the arguments the model draws: nan below zero, -inf at zero,
\* the exponent at a power of ten
np_log10(x) ==
    IF QLt(x, Num(0)) THEN NaN
    ELSE IF QEq(x, Num(0)) THEN Q(0 - 1, 0)
    ELSE Num(CHOOSE k \in (0 - 3)..3 : Pow10(k) = x)

\* lines 165-168 with av and dav numbers: the factor alambda, kept as the
\* prefactor av/log10(av+dav) and the two exponents of 10 that multiply the
\* attenuation curve k
analytic_factor(av, dav) ==
    [pre |-> QDiv(av, np_log10(QAdd(av, dav))),
     e1  |-> QMul(Q(0 - 4, 10), QAdd(av, dav)),
     e2  |-> QMul(Q(0 - 4, 10), av)]

\* the early return taken when either attenuation is unset
no_attenuation_either(av, dav) == av.t = "None" \/ dav.t = "None"

\* line 220: whether no attenuation was requested
no_attenuation(av, dav) == av.t = "None" /\ dav.t = "None"

\* np.any(dav > 0)
any_positive(dav) == \E s \in 1..Len(dav) : QGt(dav[s], Num(0))

\* line 226: nsplit = nsplit * np.any(dav > 0) + 1
piece_count(nsplit, dav) == nsplit * (IF any_positive(dav) THEN 1 ELSE 0) + 1

\* the magnitudes of one unit of optical depth
MagPerTau == Q(1086, 1000)

\* line 234: the optical depth of piece i (1-based) for attenuation index s
avdist(av, dav, nsplit, i, s) ==
    QAdd(QDiv(av[s], MagPerTau),
         QMul(QDiv(dav[s], MagPerTau), Q(2 * i - 1, 2 * nsplit)))

\* np.squeeze of a (nspec, nwave) array with nwave > 1
np_squeeze(x) == IF Len(x) = 1 THEN x[1] ELSE x

(***************************************************************************)
(* Inputs.                                                                 *)
(***************************************************************************)
Fwhms == {Num(1), Num(2)}

FBursts == {Q(0, 1), Q(1, 4), Q(1, 2), Q(1, 1)}

Contrasts == {Num(1), Num(5)}

Sfrs == {Num(0), Num(1), Num(2)}

BinRes == {Num(1), Num(10)}

NoLocal == [i |-> 0]

NoRet == [kind |-> "none"]

CbpArgs ==
    [fwhm_burst : Fwhms, f_burst : FBursts, contrast : Contrasts,
     bin_width : {Num(w) : w \in 1..MaxT}, bin_sfr : Sfrs]

\* SFH bins on integer edges 0..MaxT, in time order (a later bin starts at
\* or after the end of the one before); zero-width bins included.  Adjacent
\* bins get different SFRs, so that a sample given the SFR of the wrong bin
\* shows.
Bins == [t1 : {Num(t) : t \in 0..MaxT}, t2 : {Num(t) : t \in 0..MaxT},
         sfr : {Num(1), Num(2)}]

Sfhs ==
    {s \in UNION {[1..n -> Bins] : n \in 1..MaxBins} :
        /\ \A k \in 1..Len(s) : QLe(s[k].t1, s[k].t2)
        /\ \A k \in 1..(Len(s) - 1) :
               QLe(s[k].t2, s[k + 1].t1) /\ s[k].sfr # s[k + 1].sfr}

BsfhArgs ==
    [fwhm_burst : {Num(1)}, f_burst : {Q(0, 1), Q(1, 2)}, contrast : Contrasts,
     sfh : Sfhs, bin_res : BinRes]

BsfhLocal == [i |-> 0, a |-> <<>>, tburst |-> <<>>, A |-> <<>>, sigma |-> <<>>]

SpsArgs ==
    [lookback_time : UNION {[1..n -> {Num(t) : t \in 0..(MaxT + 1)}] : n \in 1..2},
     lt : {[k \in 1..n |-> Num(k - 1)] : n \in 2..(MaxT + 1)},
     sfr_rate : {Num(1), Num(2)}]

\* (av, dav) pairs for redden_analytic whose sum is <= 0 or a power of ten
AnalyticAvDav ==
    {<<None, None>>, <<Scalar(Num(0)), Scalar(Num(10))>>,
     <<Scalar(Num(0)), Scalar(Num(0))>>, <<Scalar(Num(0 - 1)), Scalar(Q(1, 2))>>,
     <<Scalar(Q(1, 2)), Scalar(Q(1, 2))>>, <<Scalar(Num(1)), Scalar(Num(9))>>,
     <<Scalar(Q(1, 20)), Scalar(Q(1, 20))>>, <<Scalar(Num(1)), Scalar(Num(0 - 1))>>,
     <<Scalar(Num(5)), Scalar(Num(5))>>}

Spectra ==
    {<<<<Num(1), Num(2)>>>>, <<<<Num(1), Num(2)>>, <<Num(3), Num(1)>>>>,
     <<<<Num(2), Num(2)>>, <<Num(0), Num(1)>>, <<Num(1), Num(1)>>>>}

AnalyticArgs ==
    {[spec |-> sp, av |-> p[1], dav |-> p[2], dust_curve |-> dc] :
        sp \in Spectra, p \in AnalyticAvDav, dc \in {"cardelli", "None"}}

\* attenuations for nspec spectra: unset, one scalar for all, or one per
\* spectrum
Attenuations(nspec, values) ==
    {None} \cup {Scalar(x) : x \in values} \cup {Array(a) : a \in [1..nspec -> values]}

PiecesArgs ==
    {[spec |-> sp, av |-> av, dav |-> dav, nsplit |-> ns, dust_curve |-> dc] :
        sp \in Spectra,
        av \in {a \in Attenuations(2, {Num(0), Q(1, 2)}) :
                   a.t = "array" => a.vs[1] # a.vs[2]},
        dav \in Attenuations(2, {Num(0), Q(1, 2), Q(0 - 1, 2)}),
        ns \in {1, 3, 9}, dc \in {"cardelli", "None"}}

Init ==
    /\ \/ fn = "convert_burst_pars" /\ args \in CbpArgs /\ local = NoLocal
       \/ fn = "burst_sfh" /\ args \in BsfhArgs /\ local = BsfhLocal
       \/ fn = "bursty_sps" /\ args \in SpsArgs /\ local = NoLocal
       \/ fn = "redden_analytic" /\ args \in AnalyticArgs /\ local = NoLocal
       \/ fn = "redden_pieces" /\ args \in PiecesArgs /\ local = NoLocal
    /\ pc = "call"
    /\ ret = NoRet

Raise(exc) == pc' = "error" /\ ret' = [kind |-> "error", exc |-> exc]

\* a call of convert_burst_pars, lines 36-59
Call_convert_burst_pars ==
    /\ fn = "convert_burst_pars" /\ pc = "call"
    /\ LET r == convert_burst_pars(args.fwhm_burst, args.f_burst, args.contrast,
                                   args.bin_width, args.bin_sfr)
       IN  \E tburst \in uniform(Num(0), args.bin_width, r.nburst) :
               ret' = [kind |-> "ok", a |-> r.a, tburst |-> tburst,
                       A |-> r.A, sigma |-> r.sigma]
    /\ pc' = "done"
    /\ UNCHANGED <<fn, args, local>>

\* one iteration of the loop over the bins, lines 70-78
burst_sfh_bin ==
    /\ fn = "burst_sfh" /\ pc = "call" /\ local.i < Len(args.sfh)
    /\ LET abin == args.sfh[local.i + 1]
           width == QSub(abin.t2, abin.t1)
           r == convert_burst_pars(args.fwhm_burst, args.f_burst, args.contrast,
                                   width, abin.sfr)
       IN  \E draws \in uniform(Num(0), width, r.nburst) :
               local' = [i |-> local.i + 1,
                         a |-> Append(local.a, r.a),
                         tburst |-> local.tburst \o
                                    [j \in 1..r.nburst |-> QAdd(draws[j], abin.t1)],
                         A |-> local.A \o [j \in 1..r.nburst |-> r.A],
                         sigma |-> local.sigma \o [j \in 1..r.nburst |-> r.sigma]]
    /\ UNCHANGED <<fn, args, pc, ret>>

\* the rest of burst_sfh once every bin is converted, lines 80-95
burst_sfh_grid ==
    /\ fn = "burst_sfh" /\ pc = "call" /\ local.i = Len(args.sfh)
    /\ LET dt == time_resolution(args.sfh, local.sigma, args.bin_res)
           times == time_grid(args.sfh, dt)
           bins == bin_edges(args.sfh)
       IN  IF ~times.ok
           THEN Raise(times.exc)
           ELSE LET bin_num == [k \in 1..Len(times.v) |-> bin_number(times.v[k], bins)]
                    consts == [k \in 1..Len(times.v) |-> py_index(local.a, bin_num[k])]
                IN  IF \E k \in 1..Len(times.v) : ~consts[k].ok
                    THEN Raise("IndexError")
                    ELSE /\ pc' = "done"
                         /\ ret' = [kind |-> "ok", dt |-> dt, times |-> times.v,
                                    bin_num |-> bin_num,
                                    sfr |-> [k \in 1..Len(times.v) |->
                                        [const |-> consts[k].v,
                                         burst |-> gauss(times.v[k], local.tburst,
                                                         local.A, local.sigma)]],
                                    f_burst_actual |-> <<>>]
    /\ UNCHANGED <<fn, args, local>>

\* a call of bursty_sps with av = dav = None, lines 136-160.  The SFH is
\* sfr_rate at every sample of lt.
Call_bursty_sps ==
    /\ fn = "bursty_sps" /\ pc = "call"
    /\ LET lt  == args.lt
           sfr == [s \in 1..Len(lt) |-> args.sfr_rate]
           dt  == QSub(lt[2], lt[1])
           target_lt == args.lookback_time
       IN  IF AttenuatorName \notin ModuleNames
           THEN Raise("NameError")
           ELSE \E wf \in [1..Len(target_lt) -> [1..Len(lt) -> WeightFracs]] :
                   LET iw == [i \in 1..Len(target_lt) |-> [s \in 1..Len(lt) |->
                                 weights_1DLinear(ssp_ages, QSub(lt[s], target_lt[i]),
                                                  wf[i][s])]]
                       aw == [i \in 1..Len(target_lt) |->
                                 agg_weights(iw[i], sfr,
                                             valid_samples(lt, target_lt[i]), dt)]
                   IN  /\ pc' = "done"
                       /\ ret' = [kind |-> "ok",
                                  int_spec |-> [i \in 1..Len(target_lt) |->
                                      integrated_spectrum(ssp_spec, aw[i])],
                                  aw |-> aw]
    /\ UNCHANGED <<fn, args, local>>

\* a call of redden_analytic, lines 165-168
Call_redden_analytic ==
    /\ fn = "redden_analytic" /\ pc = "call"
    /\ IF args.dust_curve = "None" \/ args.av.t = "None" \/ args.dav.t = "None"
       THEN Raise("TypeError")
       ELSE /\ pc' = "done"
            /\ ret' = [kind |-> "ok",
                       spec |-> [spec |-> args.spec,
                                 alambda |-> analytic_factor(args.av.v, args.dav.v)],
                       lir |-> None]
    /\ UNCHANGED <<fn, args, local>>

\* a call of redden_pieces, lines 220-244
Call_redden_pieces ==
    /\ fn = "redden_pieces" /\ pc = "call"
    /\ IF no_attenuation(args.av, args.dav)
       THEN /\ pc' = "done" /\ local' = [warned |-> FALSE]
            /\ ret' = [kind |-> "ok", spec |-> args.spec, lir |-> None]
       ELSE IF args.dust_curve = "None"
       THEN /\ pc' = "done" /\ local' = [warned |-> TRUE]
            /\ ret' = [kind |-> "ok", spec |-> args.spec, lir |-> None]
       ELSE IF args.av.t = "None" \/ args.dav.t = "None"
       THEN Raise("TypeError") /\ local' = [warned |-> FALSE]
       ELSE LET av == np_atleast_1d(args.av)
                dav == np_atleast_1d(args.dav)
                nsplit == piece_count(args.nsplit, dav)
                nspec == Len(args.spec)
                nwave == Len(args.spec[1])
                lisplit == [s \in 1..nspec |-> [w \in 1..nwave |->
                               QDiv(args.spec[s][w], Num(nsplit))]]
                \* broadcasting: an axis of length 1 stretches to the other's
                nav == IF Len(av) > Len(dav) THEN Len(av) ELSE Len(dav)
                nrow == IF nav > nspec THEN nav ELSE nspec
                at(len, s) == IF len = 1 THEN 1 ELSE s
                dist == [i \in 1..nsplit |-> [s \in 1..nav |->
                            avdist(<<av[at(Len(av), s)]>>, <<dav[at(Len(dav), s)]>>,
                                   nsplit, i, 1)]]
                \* spec_red[s][w]: the sum over the pieces i of
                \* exp(-k(wave[w]) * tau) * flux, kept as its terms
                spec_red == [s \in 1..nrow |-> [w \in 1..nwave |->
                                [i \in 1..nsplit |->
                                    [tau |-> dist[i][at(nav, s)],
                                     flux |-> lisplit[at(nspec, s)][w]]]]]
            IN  IF nav > 1 /\ nspec > 1 /\ nav # nspec
                THEN Raise("ValueError") /\ local' = [warned |-> FALSE]
                ELSE /\ pc' = "done"
                     /\ local' = [warned |-> FALSE, nsplit |-> nsplit,
                                  lisplit |-> lisplit, avdist |-> dist]
                     /\ ret' = [kind |-> "ok", spec |-> np_squeeze(spec_red),
                                lir |-> [t |-> "array", len |-> nrow]]
    /\ UNCHANGED <<fn, args>>

Next ==
    \/ Call_convert_burst_pars
    \/ burst_sfh_bin
    \/ burst_sfh_grid
    \/ Call_bursty_sps
    \/ Call_redden_analytic
    \/ Call_redden_pieces

Spec == Init /\ [][Next]_vars

(***************************************************************************)
(* Properties.                                                             *)
(***************************************************************************)
AllNone(av, dav) == av.t = "None" /\ dav.t = "None"

OneNone(av, dav) == (av.t = "None") # (dav.t = "None")

\* C1: mass conservation in convert_burst_pars: for bin_width > 0 and
\* bin_sfr > 0, every f_burst in [0,1], contrast > 0 and fwhm_burst > 0, the
\* returned a, A and the number of returned burst times satisfy
\* a*bin_width + nburst*A = bin_width*bin_sfr, on every branch.
C1_MassConservation ==
    (fn = "convert_burst_pars" /\ pc = "done" /\ QGt(args.bin_sfr, Num(0))) =>
        QAdd(QMul(ret.a, args.bin_width), QMul(Num(Len(ret.tburst)), ret.A))
            = QMul(args.bin_width, args.bin_sfr)

C1_Witness ==
    /\ fn = "convert_burst_pars" /\ pc = "done"
    /\ QGt(args.bin_sfr, Num(0))
    /\ Len(ret.tburst) > 1
    /\ QGt(ret.a, Num(0))

\* C2: burst suppression on short bins: whenever bin_width < 2*fwhm_burst,
\* convert_burst_pars returns no burst times, A = 0 and a = bin_sfr, for
\* every requested f_burst and contrast.
C2_ShortBinSuppression ==
    (/\ fn = "convert_burst_pars" /\ pc = "done"
     /\ QLt(args.bin_width, QMul(Num(2), args.fwhm_burst))) =>
        /\ Len(ret.tburst) = 0
        /\ ret.A = Num(0)
        /\ ret.a = args.bin_sfr

C2_Witness ==
    /\ fn = "convert_burst_pars" /\ pc = "done"
    /\ QLt(args.bin_width, QMul(Num(2), args.fwhm_burst))
    /\ QGe(args.bin_width, args.fwhm_burst)
    /\ args.f_burst = Num(1) /\ QGt(args.bin_sfr, Num(0))
    /\ ret.a = args.bin_sfr

\* C3: weight normalization in bursty_sps: for every target lookback time
\* with at least one SFH sample lt >= tl, the call yields a row aw[i,:] of
\* per-age weights that sums to dt * (the sum of sfr over those samples).
C3_WeightNormalization ==
    (fn = "bursty_sps" /\ pc # "call") =>
        \A i \in 1..Len(args.lookback_time) :
            LET valid == {s \in 1..Len(args.lt) : QGe(args.lt[s], args.lookback_time[i])}
            IN  valid # {} =>
                    /\ ret.kind = "ok"
                    /\ QSum(ret.aw[i]) =
                         QMul(QSub(args.lt[2], args.lt[1]),
                              QMul(Num(Cardinality(valid)), args.sfr_rate))

\* C4: zero-result boundary in bursty_sps: for a target lookback time
\* greater than max(lt) the call does not fail, and the integrated spectrum
\* row and the per-age weight row of that target are all zeros.
C4_ZeroResultBoundary ==
    (fn = "bursty_sps" /\ pc # "call") =>
        \A i \in 1..Len(args.lookback_time) :
            (\A s \in 1..Len(args.lt) : QLt(args.lt[s], args.lookback_time[i])) =>
                /\ pc = "done" /\ ret.kind = "ok"
                /\ ret.int_spec[i] = Num(0)
                /\ \A j \in 1..Len(ret.aw[i]) : ret.aw[i][j] = Num(0)

\* C5: attenuation identity: redden_pieces with av and dav both None returns
\* the input spectrum unchanged and None for the energy term, for every
\* nsplit and with or without a dust curve; with exactly one of them None the
\* call is not silently skipped (it does not return as if nothing was asked).
C5_AttenuationIdentity ==
    (fn = "redden_pieces" /\ pc # "call") =>
        /\ AllNone(args.av, args.dav) =>
               /\ pc = "done" /\ ~local.warned
               /\ ret.lir.t = "None" /\ ret.spec = args.spec
        /\ OneNone(args.av, args.dav) =>
               ~(pc = "done" /\ ~local.warned /\ ret.lir.t = "None")

C5_Witness ==
    /\ fn = "redden_pieces" /\ pc = "done"
    /\ AllNone(args.av, args.dav)
    /\ args.dust_curve # "None" /\ args.nsplit > 1
    /\ ret.spec = args.spec /\ ret.lir = None

\* C6: degenerate input in burst_sfh: when every SFH bin has t1 = t2, the
\* call ends in an error and returns no (times, sfr) result.
C6_DegenerateInputFails ==
    (/\ fn = "burst_sfh" /\ pc # "call"
     /\ \A k \in 1..Len(args.sfh) : args.sfh[k].t1 = args.sfh[k].t2) =>
        pc = "error" /\ ret.kind = "error"

C6_Witness ==
    /\ fn = "burst_sfh" /\ pc = "error"
    /\ Len(args.sfh) > 1
    /\ \A k \in 1..Len(args.sfh) : args.sfh[k].t1 = args.sfh[k].t2
    /\ QGt(args.sfh[1].t2, Num(0))

\* C7: guarded analytic attenuator: redden_analytic called with numbers
\* av + dav <= 0 or av = 0 ends in an error and returns no attenuated
\* spectrum.
C7_AnalyticGuard ==
    (/\ fn = "redden_analytic" /\ pc # "call"
     /\ args.dust_curve # "None" /\ args.av.t = "scalar" /\ args.dav.t = "scalar"
     /\ \/ QLe(QAdd(args.av.v, args.dav.v), Num(0))
        \/ args.av.v = Num(0)) =>
        pc = "error" /\ ret.kind = "error"

\* C8: piece count in redden_pieces: the number of sub-pieces, the divisor
\* applied to the spectrum and the number of attenuation values are 1 when
\* dav <= 0 for every spectrum and the caller's nsplit otherwise.
C8_PieceCount ==
    (fn = "redden_pieces" /\ pc = "done" /\ ret.lir.t = "array") =>
        LET dav == IF args.dav.t = "scalar" THEN <<args.dav.v>> ELSE args.dav.vs
            pieces == IF \A s \in 1..Len(dav) : QLe(dav[s], Num(0))
                      THEN 1 ELSE args.nsplit
        IN  /\ local.nsplit = pieces
            /\ Len(local.avdist) = pieces
            /\ \A s \in 1..Len(args.spec) : \A w \in 1..Len(args.spec[s]) :
                   QMul(local.lisplit[s][w], Num(pieces)) = args.spec[s][w]

\* C9: bin assignment in burst_sfh: with B = [bin[0].t1] + all bin.t2,
\* every sample time t gets a bin index k in 0..nbins-1 with
\* B[k] <= t < B[k+1], and the constant-mode part of its SFR is that of bin
\* k, for every ordered sequence of bins with t2 > t1, also one whose first
\* bin starts at t1 > 0.
C9_BinAssignment ==
    (/\ fn = "burst_sfh" /\ pc = "done"
     /\ \A k \in 1..Len(args.sfh) : QLt(args.sfh[k].t1, args.sfh[k].t2)) =>
        LET B == <<args.sfh[1].t1>> \o [k \in 1..Len(args.sfh) |-> args.sfh[k].t2]
        IN  \A i \in 1..Len(ret.times) :
                LET k == ret.bin_num[i]
                IN  /\ k \in 0..(Len(args.sfh) - 1)
                    /\ QLe(B[k + 1], ret.times[i])
                    /\ QLt(ret.times[i], B[k + 2])
                    /\ ret.sfr[i].const = local.a[k + 1]

\* C10: time grid of burst_sfh: dt = min(burst sigma)/5 when a burst was
\* generated and min(bin width)/bin_res otherwise; times[k] = k*dt for
\* k = 0 .. round(max(t2)/dt)-1; the first sample is 0, consecutive samples
\* differ by dt, no sample is at or beyond max(t2), and the grid ends less
\* than 1.5*dt short of max(t2).
C10_TimeGrid ==
    (fn = "burst_sfh" /\ pc = "done") =>
        LET sfh   == args.sfh
            t2max == QMax([k \in 1..Len(sfh) |-> sfh[k].t2])
            wmin  == QMin([k \in 1..Len(sfh) |-> QSub(sfh[k].t2, sfh[k].t1)])
            dt    == IF Len(local.tburst) > 0
                     THEN QDiv(QDiv(args.fwhm_burst, Q(2355, 1000)), Num(5))
                     ELSE QDiv(wmin, args.bin_res)
            n     == Len(ret.times)
        IN  /\ ret.dt = dt
            /\ Num(n) = np_round(QDiv(t2max, dt))
            /\ n >= 1 /\ ret.times[1] = Num(0)
            /\ \A k \in 1..n : ret.times[k] = QMul(Num(k - 1), dt)
            /\ \A k \in 1..(n - 1) : QSub(ret.times[k + 1], ret.times[k]) = dt
            /\ \A k \in 1..n : QLt(ret.times[k], t2max)
            /\ QGt(QAdd(ret.times[n], QMul(Q(3, 2), dt)), t2max)

C10_Witness ==
    /\ fn = "burst_sfh" /\ pc = "done"
    /\ Len(local.tburst) > 0
    /\ Len(args.sfh) > 1
    /\ Len(ret.times) > 10
    /\ QGt(QAdd(ret.times[Len(ret.times)], ret.dt),
           QMax([k \in 1..Len(args.sfh) |-> args.sfh[k].t2]))

====
